---------------------------- MODULE Spec2Model ----------------------------
(***************************************************************************)
(* Weather station: wind speed (Arduino, serial JSON lines) and            *)
(* temperature (DS18B20, one-wire file) republished to an MQTT broker.     *)
(*                                                                         *)
(* Two scripts are modelled:                                               *)
(*   weatherstation_RPI.py  - main() with setup, loop and cleanup          *)
(*   weatherstation.py      - module-level setup and loop                  *)
(*                                                                         *)
(* Text is a sequence of one-character strings.  A Python value is a       *)
(* record [t, n, s]: t is the Python type, n the number in thousandths     *)
(* (a float x is held as 1000*x), s the text of a str.  The outcome of a   *)
(* call is a record [k, val, exc]: it returned val (k = "ret") or raised   *)
(* exc (k = "raise").                                                      *)
(***************************************************************************)
EXTENDS Integers, Sequences, FiniteSets, TLC

VARIABLES
    pc,             \* position of the running script
    now,            \* wall clock, in units of 50 ms
    sigint,         \* a KeyboardInterrupt has been delivered
    ser,            \* serial handle: "none", "open", "closed"
    client,         \* broker client: "none", "connected", "looping", "stopped", "disconnected"
    ws,             \* weatherstation_RPI.py: this tick's wind value
    temp_c,         \* weatherstation_RPI.py: retained temperature
    last_temp_pub,  \* weatherstation_RPI.py: time of the last temperature attempt
    tc,             \* weatherstation_RPI.py: outcome of the last read_temp_c()
    wind,           \* weatherstation.py: this tick's wind value
    temp,           \* weatherstation.py: this tick's temperature
    w1_slave,       \* the one-wire sensor as the file system shows it
    rx,             \* what the serial port delivered to this tick's readline()
    out,            \* what this tick has sent: wind topic, temp topic, stdout
    exc,            \* the exception that left the loop, "" when none
    status,         \* exit status of the process, -1 while it runs
    lastGood,       \* history: value of the most recent successful read_temp_c()
    tempPubs,       \* history: publishes to the temperature topic so far (saturating)
    debugs,         \* history: debug records so far (saturating)
    lastRead,       \* history: time of the last call of a temperature reader, -1 before it
    pending,        \* lines waiting in the serial input buffer
    behind,         \* history: lines that waited behind the line this tick's readline() took
    ret             \* outcome of the last call of a temperature reader made on its own

vars == <<pc, now, sigint, ser, client, ws, temp_c, last_temp_pub, tc,
          wind, temp, w1_slave, rx, out, exc, status, lastGood, tempPubs, debugs,
          lastRead, pending, behind, ret>>

\* what weatherstation_RPI.py never touches
reader == <<wind, temp, ret>>

(***************************************************************************)
(* Bounds of the model.                                                    *)
(***************************************************************************)
MaxLine1 == 4       \* longest first line of the sensor file (without newline)
MaxLine2 == 4       \* longest second line of the sensor file (without newline)

(***************************************************************************)
(* Python values and call outcomes.                                        *)
(***************************************************************************)
PyNone == [t |-> "NoneType", n |-> 0, s |-> <<>>]
PyFloat(m) == [t |-> "float", n |-> m, s |-> <<>>]
PyInt(m) == [t |-> "int", n |-> m, s |-> <<>>]
PyStr(txt) == [t |-> "str", n |-> 0, s |-> txt]

Ret(v) == [k |-> "ret", val |-> v, exc |-> ""]
Raise(e) == [k |-> "raise", val |-> PyNone, exc |-> e]

(***************************************************************************)
(* Text helpers: str.strip, s[-3:], str.find, "in", str.split, int().      *)
(***************************************************************************)
Whitespace == {" ", "\n", "\t", "\r"}
Digits == {"0", "1", "2", "3", "4", "5", "6", "7", "8", "9"}

RECURSIVE LStrip(_)
LStrip(s) == IF s # <<>> /\ Head(s) \in Whitespace THEN LStrip(Tail(s)) ELSE s

RECURSIVE RStrip(_)
RStrip(s) ==
    IF s # <<>> /\ s[Len(s)] \in Whitespace THEN RStrip(SubSeq(s, 1, Len(s) - 1)) ELSE s

Strip(s) == RStrip(LStrip(s))

\* s[-3:]
Last3(s) == IF Len(s) <= 3 THEN s ELSE SubSeq(s, Len(s) - 2, Len(s))

\* s[i:] for a 0-based i >= 0
From(s, i) == SubSeq(s, i + 1, Len(s))

IsAt(s, sub, i) ==
    /\ i + Len(sub) <= Len(s)
    /\ \A j \in 1..Len(sub) : s[i + j] = sub[j]

\* s.find(sub): the 0-based index of the first occurrence, -1 when there is none
Find(s, sub) ==
    LET hits == {i \in 0..Len(s) : IsAt(s, sub, i)}
    IN  IF hits = {} THEN -1 ELSE CHOOSE i \in hits : \A j \in hits : i <= j

\* sub in s
Contains(s, sub) == Find(s, sub) # -1

\* s.split(sep): the pieces of s between the occurrences of sep
RECURSIVE Split(_, _)
Split(s, sep) ==
    LET p == Find(s, sep)
    IN  IF p = -1 THEN <<s>>
        ELSE <<SubSeq(s, 1, p)>> \o Split(From(s, p + Len(sep)), sep)

DigitVal(c) ==
    CASE c = "0" -> 0 [] c = "1" -> 1 [] c = "2" -> 2 [] c = "3" -> 3 [] c = "4" -> 4
      [] c = "5" -> 5 [] c = "6" -> 6 [] c = "7" -> 7 [] c = "8" -> 8 [] c = "9" -> 9

RECURSIVE DecVal(_)
DecVal(d) ==
    IF d = <<>> THEN 0
    ELSE IF d[Len(d)] = "_" THEN DecVal(SubSeq(d, 1, Len(d) - 1))
    ELSE 10 * DecVal(SubSeq(d, 1, Len(d) - 1)) + DigitVal(d[Len(d)])

\* the digits of an int literal: digits, single underscores only between digits
IsDecimal(d) ==
    /\ d # <<>>
    /\ \A i \in 1..Len(d) : d[i] \in Digits \cup {"_"}
    /\ d[1] \in Digits /\ d[Len(d)] \in Digits
    /\ \A i \in 1..(Len(d) - 1) : ~(d[i] = "_" /\ d[i + 1] = "_")

\* int(s): surrounding whitespace ignored, an optional sign, then the digits
IntOf(s) ==
    LET b == Strip(s)
        signed == b # <<>> /\ b[1] \in {"+", "-"}
        d == IF signed THEN Tail(b) ELSE b
    IN  IF ~IsDecimal(d) THEN Raise("ValueError")
        ELSE Ret(PyInt(IF signed /\ b[1] = "-" THEN 0 - DecVal(d) ELSE DecVal(d)))

\* a slip of the divisor: n / 100.0
DivBy100(i) == PyFloat(10 * i.n)

\* n / 1000.0 and n / 1000: the float n/1000, held in thousandths
Div1000(i) == PyFloat(i.n)

YES == <<"Y", "E", "S">>
TEq == <<"t", "=">>

(***************************************************************************)
(* The one-wire sensor file.  devices: glob('28-*') finds a device;        *)
(* exists: its w1_slave file can be opened; lines: what readlines() gives. *)
(***************************************************************************)
OpenReadlines(w1) == IF w1.exists THEN Ret(w1.lines) ELSE Raise("FileNotFoundError")

\* lines[i] for a 0-based i
Item(lines, i) == IF i < Len(lines) THEN Ret(lines[i + 1]) ELSE Raise("IndexError")

\* weatherstation_RPI.py read_temp_c(): the body of its try block
ReadTempCTry(w1) ==
    LET f == OpenReadlines(w1)
    IN  IF f.k = "raise" THEN f
        ELSE LET l0 == Item(f.val, 0)
             IN  IF l0.k = "raise" THEN l0
                 ELSE IF Last3(Strip(l0.val)) # YES THEN Ret(PyNone)
                 ELSE LET l1 == Item(f.val, 1)
                      IN  IF l1.k = "raise" THEN l1
                          ELSE LET pos == Find(l1.val, TEq)
                               IN  IF pos # -1
                                   THEN LET t_mC == IntOf(From(l1.val, pos + 2))
                                        IN  IF t_mC.k = "raise" THEN t_mC
                                            ELSE Ret(Div1000(t_mC.val))
                                   ELSE Ret(PyNone)

\* read_temp_c() without its except clause
NoExcept(r) == r

\* except Exception: return None
ExceptReturnNone(r) == IF r.k = "raise" THEN Ret(PyNone) ELSE r

\* weatherstation_RPI.py read_temp_c()
ReadTempC(w1) ==
    IF ~w1.devices THEN Ret(PyNone) ELSE ExceptReturnNone(ReadTempCTry(w1))

\* read_temp() without its CRC check
NoCrcCheck(l0) == TRUE

\* weatherstation.py: "YES" in lines[0]
CrcOk(l0) == Contains(l0, YES)

\* weatherstation.py read_temp(); TEMP_FILE was fixed when the script started
ReadTemp(w1) ==
    LET f == OpenReadlines(w1)
    IN  IF f.k = "raise" THEN f
        ELSE LET l0 == Item(f.val, 0)
             IN  IF l0.k = "raise" THEN l0
                 ELSE IF CrcOk(l0.val)
                 THEN LET l1 == Item(f.val, 1)
                      IN  IF l1.k = "raise" THEN l1
                          ELSE LET parts == Split(l1.val, TEq)
                                   tok == Item(parts, 1)
                               IN  IF tok.k = "raise" THEN tok
                                   ELSE LET i == IntOf(tok.val)
                                        IN  IF i.k = "raise" THEN i
                                            ELSE Ret(Div1000(i.val))
                 ELSE Ret(PyNone)


(***************************************************************************)
(* The serial line.  rx is what one readline() meets: io = "error" when    *)
(* the port raises SerialException, else the bytes received before the     *)
(* timeout: text is their text ("" on a timeout with no data), bad tells   *)
(* that they also hold bytes that are not valid UTF-8.                     *)
(***************************************************************************)
Readline(r) == IF r.io = "error" THEN Raise("SerialException") ELSE Ret(r)

\* bytes.decode(errors="ignore") drops the invalid bytes; bytes.decode() raises
Decode(r, errors) ==
    IF r.bad /\ errors = "strict" THEN Raise("UnicodeDecodeError") ELSE Ret(r.text)

\* str.strip() of a received line: a line of white space only becomes ""
StripText(txt) == IF txt \in {"", " ", "\r\n", "\n"} THEN "" ELSE txt

Doc(type, has, item) == [t |-> type, has |-> has, item |-> item]

\* json.loads(line) on the lines the model sends
JsonLoads(txt) ==
    CASE txt = "{\"ws_ms\": 1.57}" -> Ret(Doc("dict", TRUE, PyFloat(1570)))
      [] txt = "{\"ws_ms\": 3.456}" -> Ret(Doc("dict", TRUE, PyFloat(3456)))
      [] txt = "{\"ws_ms\": \"abc\"}" -> Ret(Doc("dict", TRUE, PyStr(<<"a", "b", "c">>)))
      [] txt = "{\"ws_ms\": null}" -> Ret(Doc("dict", TRUE, PyNone))
      [] txt = "{}" -> Ret(Doc("dict", FALSE, PyNone))
      [] txt = "[1.57]" -> Ret(Doc("list", FALSE, PyNone))
      [] OTHER -> Raise("JSONDecodeError")

\* payload.get("ws_ms", default)
Get(payload, default) ==
    IF payload.t # "dict" THEN Raise("AttributeError")
    ELSE IF payload.has THEN Ret(payload.item) ELSE Ret(default)

\* the thousandths a decimal text "d.ddd" stands for, -1 when it is no such text
RECURSIVE Frac(_, _)
Frac(d, scale) ==
    IF d = <<>> THEN 0
    ELSE IF scale = 0 \/ Head(d) \notin Digits THEN -1
    ELSE LET rest == Frac(Tail(d), scale \div 10)
         IN  IF rest = -1 THEN -1 ELSE DigitVal(Head(d)) * scale + rest

\* float(text) for plain decimal texts of at most three decimals
FloatOfText(txt) ==
    LET b == Strip(txt)
        dot == Find(b, <<".">>)
        ip == IF dot = -1 THEN b ELSE SubSeq(b, 1, dot)
        fp == IF dot = -1 THEN <<>> ELSE From(b, dot + 1)
    IN  IF ip # <<>> /\ (\A i \in 1..Len(ip) : ip[i] \in Digits) /\ Frac(fp, 100) # -1
        THEN Ret(PyFloat(1000 * DecVal(ip) + Frac(fp, 100)))
        ELSE Raise("ValueError")

\* float(x)
FloatOf(x) ==
    CASE x.t \in {"float", "int", "bool"} -> Ret(PyFloat(x.n))
      [] x.t = "str" -> FloatOfText(x.s)
      [] OTHER -> Raise("TypeError")

(***************************************************************************)
(* round(x, 2).  A float m/1000 is the double nearest to it; round() rounds *)
(* the exact value of that double, so a decimal tie (m ending in 5) goes   *)
(* the way the double errs, and half-to-even only when the double is exact.*)
(***************************************************************************)
\* how the double nearest to i + r/1000 errs: 1 above, -1 below, 0 exact; bits
\* counts the significant bits produced so far, of the 53 a double holds
RECURSIVE DoubleErr(_, _)
DoubleErr(r, bits) ==
    IF r = 0 THEN 0
    ELSE IF bits >= 53 THEN (IF 2 * r > 1000 THEN 1 ELSE -1)
    ELSE LET bit == (2 * r) \div 1000
         IN  DoubleErr((2 * r) % 1000, IF bits > 0 \/ bit = 1 THEN bits + 1 ELSE 0)

RECURSIVE BitLen(_)
BitLen(i) == IF i = 0 THEN 0 ELSE 1 + BitLen(i \div 2)

\* round(m/1000, 2) for m >= 0, in thousandths
RoundAbs(m) ==
    LET q == m \div 10
        err == DoubleErr(m % 1000, BitLen(m \div 1000))
        up == CASE m % 10 > 5 -> TRUE
                [] m % 10 < 5 -> FALSE
                [] OTHER -> IF err = 0 THEN q % 2 = 1 ELSE err = 1
    IN  10 * (IF up THEN q + 1 ELSE q)

Round2(x) ==
    CASE x.t = "float" -> Ret(PyFloat(IF x.n < 0 THEN 0 - RoundAbs(0 - x.n) ELSE RoundAbs(x.n)))
      [] x.t = "int" -> Ret(x)
      [] x.t = "bool" -> Ret(PyInt(x.n))
      [] OTHER -> Raise("TypeError")


(***************************************************************************)
(* Time, in units of 50 ms.                                                *)
(***************************************************************************)
SER_TIMEOUT == 4        \* 0.2 s
TEMP_PERIOD == 20       \* 1.0 s
SLEEP_RPI == 1          \* time.sleep(0.05)
SLEEP_WS == 2           \* time.sleep(0.1)
UnitsPerSecond == 20

Horizon == 24           \* the clock is followed this far past the start
Epoch == TEMP_PERIOD    \* time.time() at the start: at least a second past 1970
MaxTime == Epoch + Horizon
MaxCount == 2           \* the history counters saturate here
MaxPending == 2         \* lines the serial input buffer holds; what comes after is lost

\* how long a readline() may take: the line is there already, or it ends at the timeout
ReadDurations(r) ==
    IF r.io = "ok" /\ r.text = "" /\ ~r.bad THEN {SER_TIMEOUT} ELSE {0, SER_TIMEOUT}

Sat(n) == IF n < MaxCount THEN n + 1 ELSE n

\* readline() returned received bytes: no empty timeout and no exception
HasData(r) == r.io = "ok" /\ (r.text # "" \/ r.bad)

\* the Arduino goes on sending while the script sleeps: what waits in the input
\* buffer once k more lines have come in behind the n that were there
Arrive(n, k) == IF n + k <= MaxPending THEN n + k ELSE MaxPending

\* readline() hands out the oldest line of the input buffer
TakeLine(n) == IF n > 0 THEN n - 1 ELSE 0

(***************************************************************************)
(* What the environment may present.                                       *)
(***************************************************************************)
Rx(io, bad, text) == [io |-> io, bad |-> bad, text |-> text]

NoData == {Rx("error", FALSE, ""), Rx("ok", FALSE, ""), Rx("ok", FALSE, "\r\n"),
           Rx("ok", TRUE, "")}

SerialReads ==
    NoData \cup
    {Rx("ok", FALSE, t) : t \in {"{\"ws_ms\": 1.57}", "{\"ws_ms\": 3.456}",
                                 "{\"ws_ms\": \"abc\"}", "{\"ws_ms\": null}", "{}",
                                 "[1.57]", "{\"ws_ms\": 1."}}

W1(devices, exists, lines) == [devices |-> devices, exists |-> exists, lines |-> lines]

CrcYes == <<"5", "c", " ", "Y", "E", "S", "\n">>
CrcNo == <<"5", "c", " ", "N", "O", "\n">>
YesInside == <<"Y", "E", "S", " ", "5", "c", "\n">>
T22875 == <<"5", "c", " ", "t", "=", "2", "2", "8", "7", "5", "\n">>
T21500 == <<"5", "c", " ", "t", "=", "2", "1", "5", "0", "0", "\n">>
TNoMarker == <<"5", "c", " ", "2", "2", "8", "7", "5", "\n">>
TNotInt == <<"5", "c", " ", "t", "=", "2", "2", ".", "8", "\n">>

SensorFiles ==
    { W1(FALSE, FALSE, <<>>),                \* no device
      W1(TRUE, FALSE, <<>>),                 \* device, file gone
      W1(TRUE, TRUE, <<>>),                  \* empty file
      W1(TRUE, TRUE, <<CrcYes>>),            \* truncated to one line
      W1(TRUE, TRUE, <<CrcNo, T22875>>),     \* CRC failed
      W1(TRUE, TRUE, <<YesInside, T22875>>), \* YES, but not at the end
      W1(TRUE, TRUE, <<CrcYes, TNoMarker>>), \* no t=
      W1(TRUE, TRUE, <<CrcYes, TNotInt>>),   \* not an integer
      W1(TRUE, TRUE, <<CrcYes, T22875>>),
      W1(TRUE, TRUE, <<CrcYes, T21500>>) }

NoOut == [ws |-> <<>>, temp |-> <<>>, debug |-> <<>>, diag |-> <<>>]

(***************************************************************************)
(* weatherstation_RPI.py main().                                           *)
(***************************************************************************)
Setup == {"start", "open_serial", "connect", "loop_start"}
Loop == {"read_wind", "read_temp", "pub_ws", "pub_temp", "debug", "sleep"}
Cleanup == {"close", "loop_stop", "disconnect"}

Init ==
    /\ pc = "start"
    /\ now = Epoch
    /\ sigint = FALSE
    /\ ser = "none"
    /\ client = "none"
    /\ ws = PyNone
    /\ temp_c = PyNone
    /\ last_temp_pub = 0
    /\ tc = PyNone
    /\ wind = PyNone
    /\ temp = PyNone
    /\ w1_slave = W1(FALSE, FALSE, <<>>)
    /\ rx = Rx("ok", FALSE, "")
    /\ out = NoOut
    /\ exc = ""
    /\ status = -1
    /\ lastGood = PyNone
    /\ tempPubs = 0
    /\ debugs = 0
    /\ lastRead = -1
    /\ pending = 0
    /\ behind = 0
    /\ ret = Ret(PyNone)

\* the process ends with an uncaught exception
Die(e, code) == pc' = "exit" /\ exc' = e /\ status' = code

\* an exception leaves the while loop: the finally block runs first
Unwind(e) == pc' = "close" /\ exc' = e

\* init_1wire(); port = find_serial_port(); if not port: print(...); return
MainStart ==
    /\ pc = "start"
    /\ \E found \in BOOLEAN :
         IF found
         THEN /\ pc' = "open_serial"
              /\ out' = [out EXCEPT !.diag = <<"Oppnar serieport">>]
              /\ UNCHANGED status
         ELSE /\ pc' = "exit"
              /\ status' = 0
              /\ out' = [out EXCEPT !.diag = <<"Hittade ingen serieport">>]
    /\ UNCHANGED <<lastRead, pending, behind, now, sigint, ser, client, ws, temp_c, last_temp_pub, tc, reader,
                    w1_slave, rx, exc, lastGood, tempPubs, debugs>>

\* ser = serial.Serial(port, SER_BAUD, timeout=SER_TIMEOUT)
MainOpenSerial ==
    /\ pc = "open_serial"
    /\ \E ok \in BOOLEAN :
         IF ok
         THEN ser' = "open" /\ pc' = "connect" /\ UNCHANGED <<exc, status>>
         ELSE Die("SerialException", 1) /\ UNCHANGED ser
    /\ UNCHANGED <<lastRead, pending, behind, now, sigint, client, ws, temp_c, last_temp_pub, tc, reader, 
                   w1_slave, rx, out, lastGood, tempPubs, debugs>>

\* client = mqtt.Client(); client.username_pw_set(...); client.connect(...)
MainConnect ==
    /\ pc = "connect"
    /\ \E ok \in BOOLEAN :
         IF ok
         THEN client' = "connected" /\ pc' = "loop_start" /\ UNCHANGED <<exc, status>>
         ELSE Die("ConnectionRefusedError", 1) /\ UNCHANGED client
    /\ UNCHANGED <<lastRead, pending, behind, now, sigint, ser, ws, temp_c, last_temp_pub, tc, reader, 
                   w1_slave, rx, out, lastGood, tempPubs, debugs>>

\* last_temp_pub = time.time()
InitialMarkNow == Epoch

\* last_temp_pub = 0.0
InitialMark == 0

\* temp_c = 0.0 in place of None
InitialTempZero == PyFloat(0)

\* temp_c = None
InitialTemp == PyNone

\* client.loop_start(); last_temp_pub = 0.0; temp_c = None
MainLoopStart ==
    /\ pc = "loop_start"
    /\ client' = "looping"
    /\ last_temp_pub' = InitialMark
    /\ temp_c' = InitialTemp
    /\ pc' = "read_wind"
    /\ UNCHANGED <<lastRead, pending, behind, now, sigint, ser, ws, tc, reader,  w1_slave, rx, out, exc,
                   status, lastGood, tempPubs, debugs>>

\* the inner try: payload = json.loads(line); ws = float(payload.get("ws_ms", 0.0))
ParseWs(txt) ==
    LET payload == JsonLoads(txt)
    IN  IF payload.k = "raise" THEN payload
        ELSE LET v == Get(payload.val, PyFloat(0))
             IN  IF v.k = "raise" THEN v ELSE FloatOf(v.val)

\* the tick without its ws = None
KeepWs(old) == old

\* ws = None at the top of the tick
FreshWs(old) == PyNone

\* except Exception: pass, around the inner try: ws keeps the value it had
SkipLine(r, ws0) == IF r.k = "raise" THEN Ret(ws0) ELSE r

\* the outer try: line = ser.readline().decode(errors="ignore").strip(); if line: ...
\* gives the new ws or raises
WindTry(r, ws0) ==
    LET raw == Readline(r)
    IN  IF raw.k = "raise" THEN raw
        ELSE LET txt == StripText(Decode(raw.val, "ignore").val)
             IN  IF txt # "" THEN SkipLine(ParseWs(txt), ws0) ELSE Ret(ws0)

\* the wind read without its outer except clause
SerialUncaught(r, ws0) == r

\* except Exception: pass, around the outer try: ws keeps the value it had
SkipSerial(r, ws0) == IF r.k = "raise" THEN Ret(ws0) ELSE r

\* ws = None, then the wind read of one tick
MainReadWind ==
    /\ pc = "read_wind"
    /\ \E r \in SerialReads : \E d \in ReadDurations(r) :
         /\ now + d <= MaxTime
         /\ pending > 0 => (r.io = "error" \/ (HasData(r) /\ d = 0))
         /\ rx' = r
         /\ now' = now + d
         /\ pending' = IF HasData(r) THEN TakeLine(pending) ELSE pending
         /\ behind' = IF HasData(r) THEN TakeLine(pending) ELSE 0
         /\ LET got == SkipSerial(WindTry(r, FreshWs(ws)), FreshWs(ws))
            IN  IF got.k = "raise"
                THEN Unwind(got.exc) /\ UNCHANGED ws
                ELSE /\ ws' = got.val
                     /\ pc' = "read_temp"
                     /\ UNCHANGED exc
    /\ out' = NoOut
    /\ UNCHANGED <<lastRead, sigint, ser, client, temp_c, last_temp_pub, tc, reader,
                   w1_slave, status, lastGood, tempPubs, debugs>>

\* temp_c = tc without the test for None
Overwrite(old, new) == new

\* if tc is not None: temp_c = tc
Retain(old, new) == IF new # PyNone THEN new ELSE old

\* now = time.time(); if now - last_temp_pub >= TEMP_PERIOD: ...
Due(t, last) == t - last >= TEMP_PERIOD

\* last_temp_pub = now under if tc is not None
MarkSuccess(last, t, v) == IF v # PyNone THEN t ELSE last

\* last_temp_pub = now, whatever tc is
MarkAttempt(last, t, v) == t

MainReadTemp ==
    /\ pc = "read_temp"
    /\ IF Due(now, last_temp_pub)
       THEN \E f \in SensorFiles :
              /\ w1_slave' = f
              /\ lastRead' = now
              /\ LET r == ReadTempC(f)
                 IN  IF r.k = "raise"
                     THEN Unwind(r.exc) /\ UNCHANGED <<tc, temp_c, last_temp_pub, lastGood>>
                     ELSE /\ tc' = r.val
                          /\ temp_c' = Retain(temp_c, r.val)
                          /\ lastGood' = IF r.val # PyNone THEN r.val ELSE lastGood
                          /\ last_temp_pub' = MarkAttempt(last_temp_pub, now, r.val)
                          /\ pc' = "pub_ws"
                          /\ UNCHANGED exc
       ELSE /\ pc' = "pub_ws"
            /\ UNCHANGED <<w1_slave, tc, temp_c, last_temp_pub, lastGood, exc, lastRead>>
    /\ UNCHANGED <<pending, behind, now, sigint, ser, client, ws, reader,  rx, out, status,
                   tempPubs, debugs>>

\* the message goes out twice
PublishTwice(sent, v) == Append(Append(sent, v), v)

\* client.publish(topic, payload): one message on the topic
Publish(sent, v) == Append(sent, v)

\* if ws is not None: client.publish(TOPIC_WS, round(ws, 2))
MainPubWs ==
    /\ pc = "pub_ws"
    /\ IF ws # PyNone
       THEN LET r == Round2(ws)
            IN  IF r.k = "raise"
                THEN Unwind(r.exc) /\ UNCHANGED out
                ELSE /\ out' = [out EXCEPT !.ws = Publish(@, r.val)]
                     /\ pc' = "pub_temp"
                     /\ UNCHANGED exc
       ELSE pc' = "pub_temp" /\ UNCHANGED <<out, exc>>
    /\ UNCHANGED <<lastRead, pending, behind, now, sigint, ser, client, ws, temp_c, last_temp_pub, tc, reader,
                    w1_slave, rx, status, lastGood, tempPubs, debugs>>

\* if temp_c is not None: client.publish(TOPIC_TEMP, round(temp_c, 2))
MainPubTemp ==
    /\ pc = "pub_temp"
    /\ IF temp_c # PyNone
       THEN LET r == Round2(temp_c)
            IN  IF r.k = "raise"
                THEN Unwind(r.exc) /\ UNCHANGED <<out, tempPubs>>
                ELSE /\ out' = [out EXCEPT !.temp = Publish(@, r.val)]
                     /\ tempPubs' = Sat(tempPubs)
                     /\ pc' = "debug"
                     /\ UNCHANGED exc
       ELSE pc' = "debug" /\ UNCHANGED <<out, exc, tempPubs>>
    /\ UNCHANGED <<lastRead, pending, behind, now, sigint, ser, client, ws, temp_c, last_temp_pub, tc, reader,
                    w1_slave, rx, status, lastGood, debugs>>

\* the debug block left out
NoDebug(w, t) == FALSE

\* if ws is not None and temp_c is not None:
BothPresent(w, t) == w # PyNone /\ t # PyNone

\* the record built from the values as they are
CombinedUnrounded(w, t) == <<Ret(w), Ret(t)>>

\* combined = {"ws_ms": round(ws, 2), "temp_c": round(temp_c, 2)}
Combined(w, t) == <<Round2(w), Round2(t)>>

\* if ws is not None and temp_c is not None: print(json.dumps(combined))
MainDebug ==
    /\ pc = "debug"
    /\ IF BothPresent(ws, temp_c)
       THEN LET a == Combined(ws, temp_c)[1]
                b == Combined(ws, temp_c)[2]
            IN  IF a.k = "raise" \/ b.k = "raise"
                THEN Unwind(IF a.k = "raise" THEN a.exc ELSE b.exc) /\ UNCHANGED <<out, debugs>>
                ELSE /\ out' = [out EXCEPT !.debug = Append(@, <<a.val, b.val>>)]
                     /\ debugs' = Sat(debugs)
                     /\ pc' = "sleep"
                     /\ UNCHANGED exc
       ELSE pc' = "sleep" /\ UNCHANGED <<out, exc, debugs>>
    /\ UNCHANGED <<lastRead, pending, behind, now, sigint, ser, client, ws, temp_c, last_temp_pub, tc, reader,
                    w1_slave, rx, status, lastGood, tempPubs>>

\* time.sleep(0.05), then the next tick
MainSleep ==
    /\ pc = "sleep"
    /\ now + SLEEP_RPI <= MaxTime
    /\ now' = now + SLEEP_RPI
    /\ \E k \in 0..MaxPending : pending' = Arrive(pending, k)
    /\ pc' = "read_wind"
    /\ UNCHANGED <<lastRead, behind, sigint, ser, client, ws, temp_c, last_temp_pub, tc, reader, 
                   w1_slave, rx, out, exc, status, lastGood, tempPubs, debugs>>

\* finally: ser.close()
MainClose ==
    /\ pc = "close"
    /\ ser' = "closed"
    /\ pc' = "loop_stop"
    /\ UNCHANGED <<lastRead, pending, behind, now, sigint, client, ws, temp_c, last_temp_pub, tc, reader, 
                   w1_slave, rx, out, exc, status, lastGood, tempPubs, debugs>>

\* client.loop_stop()
MainLoopStop ==
    /\ pc = "loop_stop"
    /\ client' = "stopped"
    /\ pc' = "disconnect"
    /\ UNCHANGED <<lastRead, pending, behind, now, sigint, ser, ws, temp_c, last_temp_pub, tc, reader, 
                   w1_slave, rx, out, exc, status, lastGood, tempPubs, debugs>>

\* client.disconnect(); main() returns, or the exception that left the loop goes on
MainDisconnect ==
    /\ pc = "disconnect"
    /\ client' = "disconnected"
    /\ pc' = "exit"
    /\ status' = IF exc \in {"", "KeyboardInterrupt"} THEN 0 ELSE 1
    /\ UNCHANGED <<lastRead, pending, behind, now, sigint, ser, ws, temp_c, last_temp_pub, tc, reader, 
                   w1_slave, rx, out, exc, lastGood, tempPubs, debugs>>

\* Ctrl+C: KeyboardInterrupt is raised wherever main() is.  Inside the loop the
\* except KeyboardInterrupt clause takes it and the finally block runs; before the
\* try statement and inside the finally block nothing catches it.
MainInterrupt ==
    /\ pc \in Setup \cup Loop \cup Cleanup
    /\ sigint' = TRUE
    /\ IF pc \in Loop
       THEN Unwind("KeyboardInterrupt") /\ UNCHANGED status
       ELSE Die("KeyboardInterrupt", 130)
    /\ UNCHANGED <<lastRead, pending, behind, now, ser, client, ws, temp_c, last_temp_pub, tc, reader, 
                   w1_slave, rx, out, lastGood, tempPubs, debugs>>

Next ==
    \/ MainStart
    \/ MainOpenSerial
    \/ MainConnect
    \/ MainLoopStart
    \/ MainReadWind
    \/ MainReadTemp
    \/ MainPubWs
    \/ MainPubTemp
    \/ MainDebug
    \/ MainSleep
    \/ MainClose
    \/ MainLoopStop
    \/ MainDisconnect
    \/ MainInterrupt

Spec == Init /\ [][Next]_vars


(***************************************************************************)
(* Claims about weatherstation_RPI.py, checked under Spec.                 *)
(***************************************************************************)
AfterWindRead == {"read_temp", "pub_ws", "pub_temp", "debug", "sleep"}
AfterPubWs == {"pub_temp", "debug", "sleep"}

\* C1: once a temperature read has succeeded temp_c is never None again, a read
\* that returns None leaves temp_c as it was, and every value sent to the
\* temperature topic is the (rounded) value of the most recent successful read.
C1_RetainedTemperature ==
    /\ [][temp_c # PyNone => temp_c' # PyNone]_vars
    /\ [][(pc = "read_temp" /\ Due(now, last_temp_pub) /\ tc' = PyNone)
            => temp_c' = temp_c]_vars
    /\ [](\A i \in 1..Len(out.temp) :
            lastGood # PyNone /\ out.temp[i] = Round2(lastGood).val)

\* a read succeeded, a later read failed, and the tick of the failed read still
\* published the value of the earlier success
C1_Witness ==
    /\ pc = "sleep"
    /\ last_temp_pub = now
    /\ last_temp_pub > Epoch
    /\ tc = PyNone
    /\ lastGood = PyFloat(22875)
    /\ out.temp = <<PyFloat(22880)>>

\* C2: while no temperature read has ever succeeded, nothing has been sent to the
\* temperature topic and no debug record has been written, whatever the wind is.
C2_NoTemperatureNoPublish ==
    lastGood = PyNone =>
        /\ tempPubs = 0 /\ debugs = 0
        /\ out.temp = <<>> /\ out.debug = <<>>

\* two attempts have failed, the second in a tick that has a wind value
C2_Witness ==
    /\ pc = "sleep"
    /\ lastGood = PyNone
    /\ last_temp_pub > Epoch
    /\ out.ws = <<PyFloat(1570)>>
    /\ tempPubs = 0 /\ debugs = 0

\* C3: on a tick whose serial read yields no data (I/O error, timeout, blank
\* line) ws is None and nothing is sent to the wind topic.
C3_NoWindCarryOver ==
    (pc \in AfterWindRead /\ rx \in NoData) => (ws = PyNone /\ out.ws = <<>>)

\* a tick without serial data that comes after a tick that had a wind value
C3_Witness ==
    /\ pc = "sleep"
    /\ rx \in NoData
    /\ debugs > 0
    /\ out.ws = <<>>

\* the received line is not blank and is no record with a ws_ms field
NoWindField(r) ==
    /\ r.io = "ok"
    /\ StripText(r.text) # ""
    /\ LET payload == JsonLoads(StripText(r.text))
       IN  payload.k = "raise" \/ payload.val.t # "dict" \/ ~payload.val.has

\* C4: a non-blank line that is no valid record, or a record without ws_ms, gives
\* no wind value and no publish to the wind topic on that tick.
C4_NoFieldNoWind ==
    (pc \in AfterPubWs /\ NoWindField(rx)) => (ws = PyNone /\ out.ws = <<>>)

SuccLoop(p) ==
    CASE p = "read_wind" -> "read_temp"
      [] p = "read_temp" -> "pub_ws"
      [] p = "pub_ws" -> "pub_temp"
      [] p = "pub_temp" -> "debug"
      [] p = "debug" -> "sleep"
      [] p = "sleep" -> "read_wind"

\* C5: unless an interrupt is delivered, every step of the loop leads to the next
\* step of the tick and the sleep leads to the next tick, whatever the serial
\* port and the sensor file present: no exception leaves the loop.
C5_FaultsDoNotHaltRpi ==
    [][(pc \in Loop /\ ~sigint') => (pc' = SuccLoop(pc) /\ exc' = "")]_vars

\* a tick met a serial exception and a missing sensor file, and the next tick began
C5_Witness ==
    /\ pc = "read_wind"
    /\ now > Epoch
    /\ rx.io = "error"
    /\ w1_slave.devices /\ ~w1_slave.exists
    /\ ~sigint
    /\ exc = ""

\* C10: whenever main() ends after the serial handle was opened, the handle has
\* been closed and the broker client disconnected.
C10_CleanupOnEveryExit ==
    (pc = "exit" /\ ser # "none") => (ser = "closed" /\ client = "disconnected")

\* C12: when no serial device is found at startup, main() prints the diagnostic,
\* opens no serial handle, connects to no broker, starts no loop, and the
\* process ends with a non-zero exit status.
C12_NoPortExitsNonZero ==
    (pc = "exit" /\ out.diag = <<"Hittade ingen serieport">>) =>
        /\ ser = "none"
        /\ client = "none"
        /\ last_temp_pub = 0 /\ lastRead = -1
        /\ status # 0

\* C13: within one tick there is at most one publish to the wind topic, at most
\* one publish to the temperature topic and at most one debug record.
C13_OncePerTick ==
    /\ Len(out.ws) <= 1
    /\ Len(out.temp) <= 1
    /\ Len(out.debug) <= 1

\* a tick that sent to both topics and wrote its debug record
C13_Witness ==
    /\ pc = "sleep"
    /\ Len(out.ws) = 1 /\ Len(out.temp) = 1 /\ Len(out.debug) = 1

\* C14: at the end of a tick a debug record has been written if and only if the
\* tick has a wind value and a temperature is retained, and that is exactly when
\* the tick sent to both the wind topic and the temperature topic.
C14_DebugIffBoth ==
    pc = "sleep" =>
        /\ (out.debug # <<>>) <=> (ws # PyNone /\ temp_c # PyNone)
        /\ (out.debug # <<>>) <=> (out.ws # <<>> /\ out.temp # <<>>)

\* a tick with a wind value and a temperature retained from an earlier tick
C14_Witness ==
    /\ pc = "sleep"
    /\ last_temp_pub < now
    /\ ws = PyFloat(3456)
    /\ temp_c = PyFloat(21500)
    /\ out.debug = << <<PyFloat(3460), PyFloat(21500)>> >>

\* C16: once a temperature read has succeeded, every tick sends to the
\* temperature topic, also a tick that makes no read and a tick whose read fails.
C16_TemperatureEveryTick ==
    (pc \in {"debug", "sleep"} /\ lastGood # PyNone) => Len(out.temp) = 1

\* a tick that made no temperature read and still sent the retained value
C16_Witness ==
    /\ pc = "sleep"
    /\ lastRead < now
    /\ lastGood = PyFloat(21500)
    /\ out.temp = <<PyFloat(21500)>>

\* C18: every temperature attempt sets last_temp_pub to the time of the attempt,
\* whether or not the read succeeds; an attempt comes at least TEMP_PERIOD after
\* the attempt before it; and a tick that reaches the temperature step at least
\* TEMP_PERIOD after the last attempt makes an attempt.
C18_AttemptCadence ==
    /\ [][lastRead' # lastRead =>
            /\ last_temp_pub' = now
            /\ lastRead >= 0 => now - lastRead >= TEMP_PERIOD]_vars
    /\ [][(pc = "read_temp" /\ pc' = "pub_ws" /\ lastRead >= 0
            /\ now - lastRead >= TEMP_PERIOD) => lastRead' = now]_vars

\* a second attempt has been made and no read has succeeded so far
C18_Witness ==
    /\ pc = "pub_ws"
    /\ lastGood = PyNone
    /\ tc = PyNone
    /\ lastRead = now
    /\ last_temp_pub = now
    /\ now >= Epoch + TEMP_PERIOD

\* C19: the wind value sent on a tick is never a line that lay in the input
\* buffer with a more recent line behind it when the tick's readline() began.
C19_NoStaleWind ==
    (pc \in AfterPubWs /\ out.ws # <<>>) => behind = 0

\* C20: the steps of a tick run in the order wind read, temperature read, wind
\* publish, temperature publish, debug record, and a debug record carries the
\* wind value and the temperature that the same tick sent to the two topics.
C20_DebugCarriesPublished ==
    /\ [][(pc \in Loop /\ pc' \in Loop) => pc' = SuccLoop(pc)]_vars
    /\ [](\A i \in 1..Len(out.debug) :
            /\ out.ws # <<>> /\ out.temp # <<>>
            /\ out.debug[i] = <<out.ws[Len(out.ws)], out.temp[Len(out.temp)]>>)

\* a debug record whose two values were rounded as the two publishes were
C20_Witness ==
    /\ pc = "sleep"
    /\ ws = PyFloat(3456)
    /\ temp_c = PyFloat(22875)
    /\ out.ws = <<PyFloat(3460)>>
    /\ out.temp = <<PyFloat(22880)>>
    /\ out.debug = << <<PyFloat(3460), PyFloat(22880)>> >>

(***************************************************************************)
(* weatherstation_RPI.py in a steady run: the port is found, the broker    *)
(* accepts, every readline() gives the line {"ws_ms": 1.57}, every         *)
(* read_temp_c() finds a sensor file with YES and t=22875, and nobody      *)
(* interrupts.                                                             *)
(***************************************************************************)
GoodLine == Rx("ok", FALSE, "{\"ws_ms\": 1.57}")
GoodFile == W1(TRUE, TRUE, <<CrcYes, T22875>>)

RunStart == MainStart /\ pc' = "open_serial"

RunOpenSerial == MainOpenSerial /\ ser' = "open"

RunConnect == MainConnect /\ client' = "connected"

RunReadWind == MainReadWind /\ rx' = GoodLine

RunReadTemp == MainReadTemp /\ (lastRead' # lastRead => w1_slave' = GoodFile)

NextRun ==
    \/ RunStart
    \/ RunOpenSerial
    \/ RunConnect
    \/ MainLoopStart
    \/ RunReadWind
    \/ RunReadTemp
    \/ MainPubWs
    \/ MainPubTemp
    \/ MainDebug
    \/ MainSleep

SpecRun == Init /\ [][NextRun]_vars

\* 1.2 s, with TEMP_PERIOD standing for 1.0 s
RunLength == (6 * TEMP_PERIOD) \div 5

\* C15 as stated: in a steady run of 1.2 s exactly one message is sent to the
\* temperature topic, while every tick sends the wind and writes a debug record.
C15_OneTemperaturePublish ==
    now - Epoch <= RunLength =>
        /\ tempPubs <= 1
        /\ pc = "sleep" =>
              /\ tempPubs = 1
              /\ out.ws = <<PyFloat(1570)>>
              /\ Len(out.debug) = 1

\* C15 as amended: in a steady run of 1.2 s every tick sends one message to the
\* temperature topic (22.88, read on the first tick and retained), one message
\* to the wind topic (1.57) and writes one debug record.
C15_TemperatureOnEveryTick ==
    (pc = "sleep" /\ now - Epoch <= RunLength) =>
        /\ tempPubs >= 1
        /\ out.ws = <<PyFloat(1570)>>
        /\ out.temp = <<PyFloat(22880)>>
        /\ out.debug = << <<PyFloat(1570), PyFloat(22880)>> >>

\* the last tick of the 1.2 s: the sensor was read a second time and the
\* temperature topic has had more than one message
C15_Witness ==
    /\ pc = "sleep"
    /\ now - Epoch = RunLength
    /\ lastRead >= Epoch + TEMP_PERIOD
    /\ tempPubs >= 2
    /\ out.temp = <<PyFloat(22880)>>


(***************************************************************************)
(* weatherstation.py: the script's top level.                              *)
(***************************************************************************)
\* what weatherstation.py never touches
rpi == <<ws, temp_c, last_temp_pub, tc, lastGood>>

InitWS ==
    /\ pc = "glob"
    /\ now = Epoch
    /\ sigint = FALSE
    /\ ser = "none"
    /\ client = "none"
    /\ ws = PyNone
    /\ temp_c = PyNone
    /\ last_temp_pub = 0
    /\ tc = PyNone
    /\ wind = PyNone
    /\ temp = PyNone
    /\ w1_slave = W1(TRUE, TRUE, <<CrcYes, T22875>>)
    /\ rx = Rx("ok", FALSE, "")
    /\ out = NoOut
    /\ exc = ""
    /\ status = -1
    /\ lastGood = PyNone
    /\ tempPubs = 0
    /\ debugs = 0
    /\ lastRead = -1
    /\ pending = 0
    /\ behind = 0
    /\ ret = Ret(PyNone)

\* SER_PORT = glob.glob("/dev/ttyACM*")[0]
\* TEMP_FILE = glob.glob('/sys/bus/w1/devices/28-*/w1_slave')[0]
ScriptGlob ==
    /\ pc = "glob"
    /\ \E port \in BOOLEAN, sensor \in BOOLEAN :
         IF port /\ sensor
         THEN pc' = "open_serial" /\ UNCHANGED <<exc, status>>
         ELSE Die("IndexError", 1)
    /\ UNCHANGED <<lastRead, pending, behind, now, sigint, ser, client, rpi, reader, w1_slave, rx, out,
                   tempPubs, debugs>>

\* ser = serial.Serial(SER_PORT, SER_BAUD, timeout=0.2)
ScriptOpenSerial ==
    /\ pc = "open_serial"
    /\ \E ok \in BOOLEAN :
         IF ok
         THEN ser' = "open" /\ pc' = "connect" /\ UNCHANGED <<exc, status>>
         ELSE Die("SerialException", 1) /\ UNCHANGED ser
    /\ UNCHANGED <<lastRead, pending, behind, now, sigint, client, rpi, reader, w1_slave, rx, out,
                   tempPubs, debugs>>

\* client = mqtt.Client(); client.username_pw_set(...); client.connect(...)
ScriptConnect ==
    /\ pc = "connect"
    /\ \E ok \in BOOLEAN :
         IF ok
         THEN client' = "connected" /\ pc' = "loop_start" /\ UNCHANGED <<exc, status>>
         ELSE Die("ConnectionRefusedError", 1) /\ UNCHANGED client
    /\ UNCHANGED <<lastRead, pending, behind, now, sigint, ser, rpi, reader, w1_slave, rx, out,
                   tempPubs, debugs>>

\* client.loop_start()
ScriptLoopStart ==
    /\ pc = "loop_start"
    /\ client' = "looping"
    /\ pc' = "read_wind"
    /\ UNCHANGED <<lastRead, pending, behind, now, sigint, ser, rpi, reader, w1_slave, rx, out, exc, status,
                   tempPubs, debugs>>

\* the try block: ser.reset_input_buffer(); line = ser.readline().decode().strip()
\* if line: wind = json.loads(line).get("ws_ms")
\* gives the new wind or raises
ScriptWindTry(r) ==
    LET raw == Readline(r)
    IN  IF raw.k = "raise" THEN raw
        ELSE LET dec == Decode(raw.val, "strict")
             IN  IF dec.k = "raise" THEN dec
                 ELSE LET txt == StripText(dec.val)
                      IN  IF txt = "" THEN Ret(PyNone)
                          ELSE LET payload == JsonLoads(txt)
                               IN  IF payload.k = "raise" THEN Raise(payload.exc)
                                   ELSE Get(payload.val, PyNone)

\* except: pass; wind keeps its None
BareExcept(r) == IF r.k = "raise" THEN Ret(PyNone) ELSE r

\* ser.reset_input_buffer(): nothing waits in the input buffer any more
ResetInputBuffer(n) == 0

\* wind, temp = None, None, then the wind read of one tick
ScriptReadWind ==
    /\ pc = "read_wind"
    /\ \E r \in SerialReads : \E d \in ReadDurations(r) :
         /\ now + d <= MaxTime
         /\ rx' = r
         /\ now' = now + d
         /\ pending' = ResetInputBuffer(pending)
         /\ behind' = ResetInputBuffer(pending)
         /\ LET got == BareExcept(ScriptWindTry(r))
            IN  IF got.k = "raise"
                THEN Die(got.exc, 1) /\ UNCHANGED wind
                ELSE /\ wind' = got.val
                     /\ pc' = "read_temp"
                     /\ UNCHANGED <<exc, status>>
    /\ temp' = PyNone
    /\ out' = NoOut
    /\ UNCHANGED <<lastRead, sigint, ser, client, rpi, ret, w1_slave, tempPubs, debugs>>

\* int(time.time()) % 1 == 0
WholeSecond(t) == (t \div UnitsPerSecond) % 1 = 0

\* if int(time.time()) % 1 == 0: temp = read_temp()
ScriptReadTemp ==
    /\ pc = "read_temp"
    /\ IF WholeSecond(now)
       THEN \E f \in SensorFiles :
              /\ f.devices
              /\ w1_slave' = f
              /\ lastRead' = now
              /\ LET r == ReadTemp(f)
                 IN  IF r.k = "raise"
                     THEN Die(r.exc, 1) /\ UNCHANGED temp
                     ELSE temp' = r.val /\ pc' = "pub_wind" /\ UNCHANGED <<exc, status>>
       ELSE pc' = "pub_wind" /\ UNCHANGED <<w1_slave, temp, exc, status, lastRead>>
    /\ UNCHANGED <<pending, behind, now, sigint, ser, client, rpi, wind, ret, rx, out, tempPubs, debugs>>

\* if wind is not None: client.publish(TOPIC_WIND, round(wind, 2))
ScriptPubWind ==
    /\ pc = "pub_wind"
    /\ IF wind # PyNone
       THEN LET r == Round2(wind)
            IN  IF r.k = "raise"
                THEN Die(r.exc, 1) /\ UNCHANGED out
                ELSE /\ out' = [out EXCEPT !.ws = Publish(@, r.val)]
                     /\ pc' = "pub_temp"
                     /\ UNCHANGED <<exc, status>>
       ELSE pc' = "pub_temp" /\ UNCHANGED <<out, exc, status>>
    /\ UNCHANGED <<lastRead, pending, behind, now, sigint, ser, client, rpi, reader, w1_slave, rx, tempPubs,
                   debugs>>

\* if temp is not None: client.publish(TOPIC_TEMP, round(temp, 2))
ScriptPubTemp ==
    /\ pc = "pub_temp"
    /\ IF temp # PyNone
       THEN LET r == Round2(temp)
            IN  IF r.k = "raise"
                THEN Die(r.exc, 1) /\ UNCHANGED <<out, tempPubs>>
                ELSE /\ out' = [out EXCEPT !.temp = Publish(@, r.val)]
                     /\ tempPubs' = Sat(tempPubs)
                     /\ pc' = "debug"
                     /\ UNCHANGED <<exc, status>>
       ELSE pc' = "debug" /\ UNCHANGED <<out, exc, status, tempPubs>>
    /\ UNCHANGED <<lastRead, pending, behind, now, sigint, ser, client, rpi, reader, w1_slave, rx, debugs>>

\* if wind is not None and temp is not None: print(json.dumps({...}))
ScriptDebug ==
    /\ pc = "debug"
    /\ IF wind # PyNone /\ temp # PyNone
       THEN LET a == Round2(wind)
                b == Round2(temp)
            IN  IF a.k = "raise" \/ b.k = "raise"
                THEN /\ Die(IF a.k = "raise" THEN a.exc ELSE b.exc, 1)
                     /\ UNCHANGED <<out, debugs>>
                ELSE /\ out' = [out EXCEPT !.debug = Append(@, <<a.val, b.val>>)]
                     /\ debugs' = Sat(debugs)
                     /\ pc' = "sleep"
                     /\ UNCHANGED <<exc, status>>
       ELSE pc' = "sleep" /\ UNCHANGED <<out, exc, status, debugs>>
    /\ UNCHANGED <<lastRead, pending, behind, now, sigint, ser, client, rpi, reader, w1_slave, rx, tempPubs>>

\* time.sleep(0.1), then the next tick
ScriptSleep ==
    /\ pc = "sleep"
    /\ now + SLEEP_WS <= MaxTime
    /\ now' = now + SLEEP_WS
    /\ \E k \in 0..MaxPending : pending' = Arrive(pending, k)
    /\ pc' = "read_wind"
    /\ UNCHANGED <<lastRead, behind, sigint, ser, client, rpi, reader, w1_slave, rx, out, exc, status,
                   tempPubs, debugs>>

ScriptSetup == {"glob", "open_serial", "connect", "loop_start"}
ScriptLoop == {"read_wind", "read_temp", "pub_wind", "pub_temp", "debug", "sleep"}

\* Ctrl+C: KeyboardInterrupt is raised wherever the script is.  Nothing catches it,
\* except the bare except clause while the script is inside the wind read's try
\* block: then the tick goes on with wind = None.
ScriptInterrupt ==
    /\ pc \in ScriptSetup \cup ScriptLoop
    /\ sigint' = TRUE
    /\ \E inTry \in {pc = "read_wind", FALSE} :
         IF inTry
         THEN /\ pc' = "read_temp"
              /\ wind' = PyNone /\ temp' = PyNone
              /\ out' = NoOut
              /\ UNCHANGED <<exc, status>>
         ELSE Die("KeyboardInterrupt", 130) /\ UNCHANGED <<wind, temp, out>>
    /\ UNCHANGED <<lastRead, pending, behind, now, ser, client, rpi, ret, w1_slave, rx, tempPubs, debugs>>

NextWS ==
    \/ ScriptGlob
    \/ ScriptOpenSerial
    \/ ScriptConnect
    \/ ScriptLoopStart
    \/ ScriptReadWind
    \/ ScriptReadTemp
    \/ ScriptPubWind
    \/ ScriptPubTemp
    \/ ScriptDebug
    \/ ScriptSleep
    \/ ScriptInterrupt

SpecWS == InitWS /\ [][NextWS]_vars

\* C6: once the loop of weatherstation.py runs, the script ends only by an
\* interrupt: no sensor-file content and no wind record ends it with an exception.
C6_FaultsDoNotHaltScript ==
    (pc = "exit" /\ client = "looping") => exc = "KeyboardInterrupt"

\* C11: an interrupt delivered to weatherstation.py at any point of a tick ends
\* the loop: once it is delivered no sleep leads to a further tick and nothing
\* more is sent to the wind topic or to the temperature topic.
C11_InterruptEndsScript ==
    [][sigint => /\ ~(pc = "sleep" /\ pc' = "read_wind")
                 /\ Len(out'.ws) <= Len(out.ws)
                 /\ Len(out'.temp) <= Len(out.temp)]_vars

\* C17: weatherstation.py calls read_temp() at most once per second: a call
\* comes at least one second after the call before it.
C17_OncePerSecond ==
    [][(lastRead >= 0 /\ lastRead' # lastRead)
         => lastRead' - lastRead >= UnitsPerSecond]_vars


(***************************************************************************)
(* The temperature readers on their own: one call of read_temp_c() or of   *)
(* read_temp() on each sensor file of the bounded set below.               *)
(***************************************************************************)
Alphabet1 == {"Y", "E", "S", " ", "x"}
Alphabet2 == {"t", "=", "1", "-", "_", " ", "x"}

Texts(alphabet, max) == UNION {[1..n -> alphabet] : n \in 0..max}

\* a line as readlines() gives it: never empty, the newline may miss at the end of the file
AsLines(bodies) == {b \o <<"\n">> : b \in bodies} \cup (bodies \ {<<>>})

\* the files read: no device, no file, no line, one line, every first line of up
\* to max1 characters before a fixed second line, and every second line of up to
\* max2 characters after a fixed first line
ReadFiles(max1, max2) ==
    {W1(FALSE, FALSE, <<>>), W1(TRUE, FALSE, <<>>), W1(TRUE, TRUE, <<>>)}
    \cup {W1(TRUE, TRUE, <<l0>>) : l0 \in AsLines(Texts(Alphabet1, max1))}
    \cup {W1(TRUE, TRUE, <<b \o <<"\n">>, l1>>) :
            b \in Texts(Alphabet1, max1), l1 \in {T22875, TNotInt}}
    \cup {W1(TRUE, TRUE, <<l0, l1>>) :
            l0 \in {CrcYes, CrcNo}, l1 \in AsLines(Texts(Alphabet2, max2))}

InitRead ==
    /\ pc = "call"
    /\ w1_slave \in ReadFiles(MaxLine1, MaxLine2)
    /\ now = Epoch
    /\ sigint = FALSE
    /\ ser = "none"
    /\ client = "none"
    /\ ws = PyNone
    /\ temp_c = PyNone
    /\ last_temp_pub = 0
    /\ tc = PyNone
    /\ wind = PyNone
    /\ temp = PyNone
    /\ rx = Rx("ok", FALSE, "")
    /\ out = NoOut
    /\ exc = ""
    /\ status = -1
    /\ lastGood = PyNone
    /\ tempPubs = 0
    /\ debugs = 0
    /\ lastRead = -1
    /\ pending = 0
    /\ behind = 0
    /\ ret = Ret(PyNone)

\* tc = read_temp_c()
CallReadTempC ==
    /\ pc = "call"
    /\ ret' = ReadTempC(w1_slave)
    /\ pc' = "read_temp_c"
    /\ UNCHANGED <<lastRead, pending, behind, now, sigint, ser, client, rpi, wind, temp, w1_slave, rx, out, exc,
                   status, tempPubs, debugs>>

\* temp = read_temp()
CallReadTemp ==
    /\ pc = "call"
    /\ w1_slave.devices
    /\ ret' = ReadTemp(w1_slave)
    /\ pc' = "read_temp"
    /\ UNCHANGED <<lastRead, pending, behind, now, sigint, ser, client, rpi, wind, temp, w1_slave, rx, out, exc,
                   status, tempPubs, debugs>>

NextRead ==
    \/ CallReadTempC
    \/ CallReadTemp

SpecRead == InitRead /\ [][NextRead]_vars

(***************************************************************************)
(* Claims about the readers, checked under SpecRead.  The words of the     *)
(* claims are spelled out here position by position.                       *)
(***************************************************************************)
Blank(l, from, to) == \A i \in from..to : l[i] \in Whitespace

\* l ends in the token YES, white space after it aside
EndsInYes(l) ==
    \E e \in 3..Len(l) :
        /\ l[e - 2] = "Y" /\ l[e - 1] = "E" /\ l[e] = "S"
        /\ Blank(l, e + 1, Len(l))

\* YES stands somewhere in l
HasYes(l) == \E e \in 3..Len(l) : l[e - 2] = "Y" /\ l[e - 1] = "E" /\ l[e] = "S"

\* the marker t= stands at positions p, p+1 of l
MarkerAt(l, p) == p + 1 <= Len(l) /\ l[p] = "t" /\ l[p + 1] = "="

HasMarker(l) == \E p \in 1..Len(l) : MarkerAt(l, p)

\* positions a..b of l hold an integer as Python writes one: an optional sign,
\* then digits, which single underscores may group
TokenAt(l, a, b) ==
    /\ a <= b /\ b <= Len(l)
    /\ LET d == IF l[a] \in {"+", "-"} THEN a + 1 ELSE a
       IN  /\ d <= b
           /\ l[d] \in Digits /\ l[b] \in Digits
           /\ \A i \in d..b : l[i] \in Digits \/ (l[i] = "_" /\ l[i + 1] \in Digits)

\* the number the digits of l stand for, read from the left
RECURSIVE Number(_, _)
Number(l, acc) ==
    IF l = <<>> THEN acc
    ELSE IF Head(l) \in Digits THEN Number(Tail(l), 10 * acc + DigitVal(Head(l)))
    ELSE Number(Tail(l), acc)

TokenVal(l, a, b) ==
    IF l[a] = "-" THEN 0 - Number(SubSeq(l, a, b), 0) ELSE Number(SubSeq(l, a, b), 0)

\* the token at a..b is the whole token: neither a digit nor an underscore follows it
WholeToken(l, a, b) ==
    TokenAt(l, a, b) /\ (b < Len(l) => l[b + 1] \notin Digits \cup {"_"})

\* from position a to its end, l holds an integer and white space around it only
IntegerText(l, a) ==
    \E i \in a..Len(l) : \E b \in i..Len(l) :
        Blank(l, a, i - 1) /\ TokenAt(l, i, b) /\ Blank(l, b + 1, Len(l))

\* the first t= of l stands at positions p, p+1
FirstMarkerAt(l, p) == MarkerAt(l, p) /\ ~\E q \in 1..(p - 1) : MarkerAt(l, q)

Readable(w1) == w1.devices /\ w1.exists

\* the malformed files of C7
Malformed(w1) ==
    /\ Readable(w1)
    /\ \/ Len(w1.lines) < 2
       \/ ~EndsInYes(w1.lines[1])
       \/ ~HasMarker(w1.lines[2])
       \/ \E p \in 1..Len(w1.lines[2]) :
            FirstMarkerAt(w1.lines[2], p) /\ ~IntegerText(w1.lines[2], p + 2)

\* C7: read_temp_c() returns None and raises nothing for every malformed file:
\* line 1 not ending in YES, fewer than two lines, line 2 without t=, or a text
\* after the t= that is no integer.
C7_MalformedGivesNone ==
    (pc = "read_temp_c" /\ Malformed(w1_slave)) => ret = Ret(PyNone)

\* a file truncated to its first line, which says YES: lines[1] does not exist
C7_Witness ==
    /\ pc = "read_temp_c"
    /\ w1_slave = W1(TRUE, TRUE, << <<"Y", "E", "S", "\n">> >>)
    /\ ret = Ret(PyNone)

\* C8 as stated: line 1 ends in YES and line 2 holds t=<n> with any text before
\* the t= and after the integer token: read_temp_c() returns n/1000.
C8_AnyTextAround ==
    (pc = "read_temp_c" /\ Readable(w1_slave) /\ Len(w1_slave.lines) = 2
        /\ EndsInYes(w1_slave.lines[1])) =>
        LET l == w1_slave.lines[2]
        IN  \A p \in 1..Len(l) : \A b \in 1..Len(l) :
                (FirstMarkerAt(l, p) /\ WholeToken(l, p + 2, b))
                => ret = Ret(PyFloat(TokenVal(l, p + 2, b)))

\* C8 as amended: line 1 ends in YES and line 2 has, after its first t=, the
\* integer n and nothing but white space around it up to the end of the line:
\* read_temp_c() returns n/1000, whatever text stands before that t=.
C8_IntegerToEndOfLine ==
    (pc = "read_temp_c" /\ Readable(w1_slave) /\ Len(w1_slave.lines) = 2
        /\ EndsInYes(w1_slave.lines[1])) =>
        LET l == w1_slave.lines[2]
        IN  \A p \in 1..Len(l) : \A i \in 1..Len(l) : \A b \in 1..Len(l) :
                (FirstMarkerAt(l, p) /\ Blank(l, p + 2, i - 1) /\ TokenAt(l, i, b)
                    /\ Blank(l, b + 1, Len(l)))
                => ret = Ret(PyFloat(TokenVal(l, i, b)))

\* text before the t=, an integer after it, the newline at the end
C8_Witness ==
    /\ pc = "read_temp_c"
    /\ w1_slave = W1(TRUE, TRUE, <<CrcYes, <<"x", "t", "=", "1", "\n">> >>)
    /\ ret = Ret(PyFloat(1))

\* read_temp() returned a temperature
GaveTemp == pc = "read_temp" /\ ret.k = "ret" /\ ret.val # PyNone

\* C9 as stated: read_temp() returns a temperature only when line 1 ends in the
\* token YES; a line 1 that holds YES elsewhere gives none.
C9_OnlyTrailingYes ==
    GaveTemp => EndsInYes(w1_slave.lines[1])

\* C9 as amended: read_temp() returns a temperature only when line 1 contains
\* YES, and None for every line 1 that does not contain it.
C9_OnlyWithYes ==
    /\ GaveTemp => HasYes(w1_slave.lines[1])
    /\ (pc = "read_temp" /\ w1_slave.exists /\ Len(w1_slave.lines) >= 1
           /\ ~HasYes(w1_slave.lines[1])) => ret = Ret(PyNone)

\* line 1 without YES, line 2 a good reading: None
C9_Witness ==
    /\ pc = "read_temp"
    /\ w1_slave = W1(TRUE, TRUE, << <<"Y", "E", " ", "S", "\n">>, T22875 >>)
    /\ ret = Ret(PyNone)

=============================================================================
